---- MODULE Spec2Model ----
(***************************************************************************)
(* A model of etcd/client.py: the Client class of python-etcd, the etcd    *)
(* server it talks to, and the consumers of its perpetual watch streams.   *)
(*                                                                         *)
(* Reading conventions.                                                    *)
(*  - `def write(...)` (line 174) lacks its colon; the method is read as   *)
(*    the definition its body and callers (lines 292, 295) make it.        *)
(*  - Python's None is the empty tuple and a present value v is <<v>>, so  *)
(*    that "omitted" and "0" stay distinct values.                         *)
(*  - A dict is a function on its keys.                                    *)
(*  - A call runs up to its blocking transport request in one step; the    *)
(*    server answers in a second step; the call finishes in a third.       *)
(*                                                                         *)
(* Specifications: Spec (the key-value calls), ReadSpec (the calls that    *)
(* reach the server, with every shape of answer), WatchSpec (watch and one *)
(* perpetual stream) and StreamsSpec (two perpetual streams).              *)
(***************************************************************************)
EXTENDS Integers, Sequences, FiniteSets, TLC

VARIABLES
    log,       \* the server's history of mutations; entry i has index i
    cur,       \* the client's call in progress, or its last finished call
    stream,    \* the ethernal_watch generator and what its consumer has seen
    stream2,   \* a second generator made by the same client
    client     \* the attributes of the Client object that __init__ sets

vars == <<log, cur, stream, stream2, client>>

(***************************************************************************)
(* Bounds of the model.                                                    *)
(***************************************************************************)
MaxIndex == 2      \* mutations the server history holds
MaxPulls == 2      \* next() calls a consumer makes on the stream

Keys == {"/a", "/b"}
Values == {"v1", "v2"}
WatchKey == "/a"

(***************************************************************************)
(* Python values.                                                          *)
(***************************************************************************)
None == <<>>
Some(v) == <<v>>
Val(o) == o[1]

\* bool(x) of an int-or-None: None and 0 are false, every other int is true.
Truthy(o) == o # None /\ Val(o) # 0

EmptyDict == <<>>

(***************************************************************************)
(* Client.__init__ and the class attributes.                               *)
(***************************************************************************)
_MGET == "GET"
_MPUT == "PUT"
_MDELETE == "DELETE"
_comparison_conditions == <<"prevValue", "prevIndex", "prevExists">>

\* The names `self.<name>` resolves: class attributes, properties and the
\* instance attributes __init__ sets.  _MPOST and watch_endpoint are used
\* by the class (lines 345, 348, 402) and defined nowhere in it.
ClientAttrs ==
    {"_MGET", "_MPUT", "_MDELETE", "_comparison_conditions",
     "_host", "_port", "_protocol", "_base_uri", "version_prefix",
     "_read_timeout", "_allow_redirect", "http",
     "base_uri", "host", "port", "protocol", "read_timeout", "allow_redirect",
     "machines", "leader", "key_endpoint"}

HasAttr(name) == name \in ClientAttrs

_base_uri == "http://127.0.0.1:4001"
version_prefix == "/v2"
_read_timeout == 60
allow_redirect == TRUE
key_endpoint == version_prefix \o "/keys"

\* The names the module's global scope binds: its imports and its class.
\* EtcdError (line 414) is not among them.
ModuleNames == {"urllib3", "json", "ssl", "etcd", "Client"}

HasName(name) == name \in ModuleNames

\* getattr(self, name) for the string-valued class attributes.
ClassAttr(name) ==
    CASE name = "_MGET" -> _MGET
      [] name = "_MPUT" -> _MPUT
      [] name = "_MDELETE" -> _MDELETE

(***************************************************************************)
(* The etcd server: the environment of the client.  Its state is the       *)
(* history of mutations; the mutation at position i carries index i.       *)
(* val is <<v>> for a set and None for a delete.                           *)
(***************************************************************************)
KeyUrl(k) == _base_uri \o key_endpoint \o k
MachinesUrl == _base_uri \o version_prefix \o "/machines"
LeaderUrl == _base_uri \o version_prefix \o "/leader"

\* Positions of the mutations of key k, and the last of them (0: none).
Positions(h, k) == {i \in 1..Len(h) : h[i].key = k}
LastPos(h, k) ==
    IF Positions(h, k) = {} THEN 0
    ELSE CHOOSE i \in Positions(h, k) : \A j \in Positions(h, k) : j <= i

Exists(h, k) == LastPos(h, k) # 0 /\ h[LastPos(h, k)].val # None
StoredValue(h, k) == Val(h[LastPos(h, k)].val)
ModifiedIndex(h, k) == LastPos(h, k)

\* The index at which the key's present incarnation was created: the first
\* set after its last delete (or after the start of the history).
CreatedIndex(h, k) ==
    CHOOSE i \in Positions(h, k) :
        /\ h[i].val # None
        /\ \A j \in Positions(h, k) : (j > i) => h[j].val # None
        /\ \A j \in Positions(h, k) :
               (j < i) => \E m \in Positions(h, k) : j <= m /\ m < i /\ h[m].val = None

Json(v) == [t |-> "json", v |-> v]
Text(parts) == [t |-> "text", parts |-> parts]

NodeBody(action, h, k) ==
    Json([py |-> "dict",
          d |-> [action |-> action, key |-> k, value |-> StoredValue(h, k),
                 modifiedIndex |-> ModifiedIndex(h, k),
                 createdIndex |-> CreatedIndex(h, k)]])

TombstoneBody(h, k, created) ==
    Json([py |-> "dict",
          d |-> [action |-> "delete", key |-> k,
                 modifiedIndex |-> ModifiedIndex(h, k),
                 createdIndex |-> created]])

ErrorBody(code, message, cause, h) ==
    Json([py |-> "dict",
          d |-> [errorCode |-> code, message |-> message, cause |-> cause,
                 index |-> Len(h)]])

KeyNotFound(h, k) == [status |-> 404, data |-> ErrorBody(100, "Key not found", k, h)]
CompareFailed(h, k) == [status |-> 412, data |-> ErrorBody(101, "Compare failed", k, h)]
NodeExist(h, k) == [status |-> 412, data |-> ErrorBody(105, "Key already exists", k, h)]

\* Whether the preconditions of a PUT hold of the stored key, evaluated in
\* one step with the write itself.
PreconditionsHold(h, k, f) ==
    /\ ("prevExists" \in DOMAIN f) => (f["prevExists"] = Exists(h, k))
    /\ ("prevValue" \in DOMAIN f) => (Exists(h, k) /\ StoredValue(h, k) = f["prevValue"])
    /\ ("prevIndex" \in DOMAIN f) => (Exists(h, k) /\ ModifiedIndex(h, k) = f["prevIndex"])

PreconditionError(h, k, f) ==
    IF "prevExists" \in DOMAIN f /\ f["prevExists"] # Exists(h, k)
    THEN (IF Exists(h, k) THEN NodeExist(h, k) ELSE KeyNotFound(h, k))
    ELSE (IF Exists(h, k) THEN CompareFailed(h, k) ELSE KeyNotFound(h, k))

ServerPut(h, k, f) ==
    IF PreconditionsHold(h, k, f)
    THEN LET h2 == Append(h, [key |-> k, val |-> Some(f["value"])])
         IN  [log |-> h2, resp |-> [status |-> 200, data |-> NodeBody("set", h2, k)]]
    ELSE [log |-> h, resp |-> PreconditionError(h, k, f)]

ServerGet(h, k) ==
    IF Exists(h, k)
    THEN [log |-> h, resp |-> [status |-> 200, data |-> NodeBody("get", h, k)]]
    ELSE [log |-> h, resp |-> KeyNotFound(h, k)]

ServerDelete(h, k) ==
    IF Exists(h, k)
    THEN LET h2 == Append(h, [key |-> k, val |-> None])
         IN  [log |-> h2,
              resp |-> [status |-> 200, data |-> TombstoneBody(h2, k, CreatedIndex(h, k))]]
    ELSE [log |-> h, resp |-> KeyNotFound(h, k)]

Members == <<[pad |-> FALSE, s |-> "http://127.0.0.1:4001"],
             [pad |-> TRUE, s |-> "http://127.0.0.1:4002"]>>

\* The server's answer to a transport request and the history after it.
ServerHandle(h, req) ==
    IF req.url = MachinesUrl
    THEN [log |-> h, resp |-> [status |-> 200, data |-> Text(Members)]]
    ELSE IF req.url = LeaderUrl
    THEN [log |-> h, resp |-> [status |-> 200, data |-> Text(<<Members[1]>>)]]
    ELSE LET k == CHOOSE x \in Keys : req.url = KeyUrl(x)
         IN  CASE req.method = "GET" -> ServerGet(h, k)
               [] req.method = "DELETE" -> ServerDelete(h, k)
               [] req.method = "PUT" -> ServerPut(h, k, Val(req.fields))

\* Answers of another shape than the key handlers give: the listing of a
\* directory, in the server's order, and bodies that are damaged or that
\* something between the client and the server has written.
ListBody(items) == Json([py |-> "list", items |-> items])

ListedNode(k, v, i) ==
    [action |-> "get", key |-> k, value |-> v, modifiedIndex |-> i, createdIndex |-> i]

Garbled == Text(<<[pad |-> FALSE, s |-> "<html>"]>>)

OtherResponses ==
    {[status |-> 200, data |-> ListBody(<<ListedNode("/b", "v2", 2), ListedNode("/a", "v1", 1)>>)],
     [status |-> 200, data |-> ListBody(<<ListedNode("/a", "v1", 1), [action |-> "get", key |-> "/b"]>>)],
     [status |-> 200, data |-> ListBody(<<>>)],
     [status |-> 200, data |-> Json([py |-> "dict", d |-> [action |-> "get", key |-> "/a"]])],
     [status |-> 200, data |-> Garbled],
     [status |-> 502, data |-> Garbled]}

(***************************************************************************)
(* What a piece of client code does up to its blocking transport request:  *)
(* the exception it raised ("none": it is now blocked on the request), the *)
(* transport requests it sent and the dispatcher calls it made.            *)
(***************************************************************************)
Raised(e) == [exc |-> e, sent |-> <<>>, dcalls |-> <<>>]
Sent(req) == [exc |-> "none", sent |-> <<req>>, dcalls |-> <<>>]

\* How a call ends: a returned value or a raised exception.
NoOut == [kind |-> "none", exc |-> "", val |-> <<>>]
Return(v) == [kind |-> "return", exc |-> "", val |-> <<v>>]
Raise(e) == [kind |-> "raise", exc |-> e, val |-> <<>>]

\* urllib3's http.request(method, url, fields=..., redirect=...): GET and
\* DELETE carry the fields in the query string, request_encode_body in the
\* body.  No timeout argument is passed at either call site.
Request(method, url, fields, enc) ==
    [method |-> method, url |-> url, fields |-> fields, enc |-> enc,
     redirect |-> client["_allow_redirect"], timeout |-> None]

\* api_execute up to the transport request (lines 393-408).
api_execute_request(path, method, params) ==
    LET url == client["_base_uri"] \o path
    IN  IF method = _MGET \/ method = _MDELETE
        THEN Sent(Request(method, url, params, "query"))
        ELSE IF ~HasAttr("_MPOST")
        THEN Raised("AttributeError")
        ELSE IF method = ClassAttr("_MPOST")
        THEN Sent(Request(method, url, params, "body"))
        ELSE Raised("UnboundLocalError")

\* api_execute from the response on (lines 410-414).  On a status other
\* than 200 the callee expression EtcdError.handle is evaluated first, and
\* EtcdError is not a name of the module.
api_execute_response(response) ==
    IF response.status = 200
    THEN Return(response.data)
    ELSE IF ~HasName("EtcdError")
    THEN Raise("NameError")
    ELSE Raise("EtcdError")

\* One call of the dispatcher, recorded with its arguments.
api_execute(path, method, params) ==
    LET f == api_execute_request(path, method, params)
    IN  [f EXCEPT !.dcalls = <<[path |-> path, method |-> method, params |-> params]>>]

(***************************************************************************)
(* The result decoder.                                                     *)
(***************************************************************************)
json_loads(data) ==
    IF data.t = "json" THEN Return(data.v) ELSE Raise("ValueError")

RequiredFields == {"action", "key", "modifiedIndex", "createdIndex"}
ResultFields == RequiredFields \cup {"value", "dir", "ttl", "expiration", "nodes"}

\* etcd.EtcdResult(**d): a keyword that is no field, or a missing required
\* field, is a TypeError; an absent optional field is None.
EtcdResultOk(d) == RequiredFields \subseteq DOMAIN d /\ DOMAIN d \subseteq ResultFields
EtcdResult(d) == [f \in ResultFields |-> IF f \in DOMAIN d THEN Some(d[f]) ELSE None]

\* A decoder that leaves out the elements it cannot decode.
_result_from_response_lenient(response) ==
    LET res == json_loads(response)
    IN  IF res.kind = "raise"
        THEN Raise("EtcdException")
        ELSE LET v == Val(res.val)
             IN  IF v.py = "list"
                 THEN LET good == SelectSeq(v.items, EtcdResultOk)
                      IN  Return([i \in 1..Len(good) |-> EtcdResult(good[i])])
                 ELSE IF v.py = "dict" /\ EtcdResultOk(v.d)
                 THEN Return(EtcdResult(v.d))
                 ELSE Raise("EtcdException")

_result_from_response(response) ==
    LET res == json_loads(response)
    IN  IF res.kind = "raise"
        THEN Raise("EtcdException")
        ELSE LET v == Val(res.val)
             IN  IF v.py = "list"
                 THEN IF \A i \in 1..Len(v.items) : EtcdResultOk(v.items[i])
                      THEN Return([i \in 1..Len(v.items) |-> EtcdResult(v.items[i])])
                      ELSE Raise("EtcdException")
                 ELSE IF v.py = "dict" /\ EtcdResultOk(v.d)
                 THEN Return(EtcdResult(v.d))
                 ELSE Raise("EtcdException")

(***************************************************************************)
(* The operations, each up to its transport request.                       *)
(***************************************************************************)
RECURSIVE AddConditions(_, _, _)
\* The loop of lines 206-208 from position i of _comparison_conditions.
AddConditions(params, kwdargs, i) ==
    IF i > Len(_comparison_conditions)
    THEN params
    ELSE LET condition == _comparison_conditions[i]
         IN  IF condition \in DOMAIN kwdargs
             THEN AddConditions(params @@ (condition :> kwdargs[condition]), kwdargs, i + 1)
             ELSE AddConditions(params, kwdargs, i + 1)

write(key, value, ttl, kwdargs) ==
    LET params0 == ("value" :> value)
        params1 == IF Truthy(ttl) THEN params0 @@ ("ttl" :> Val(ttl)) ELSE params0
        params == AddConditions(params1, kwdargs, 1)
        path == key_endpoint \o key
    IN  api_execute(path, _MPUT, Some(params))

read(key, kwdargs) == api_execute(key_endpoint \o key, _MGET, Some(kwdargs))

delete(key) == api_execute(key_endpoint \o key, _MDELETE, None)

\* A test_and_set that does not pass its ttl on.
test_and_set_without_ttl(key, value, prev_value, ttl) ==
    write(key, value, None, ("prevValue" :> prev_value))

test_and_set(key, value, prev_value, ttl) == write(key, value, ttl, ("prevValue" :> prev_value))

set(key, value, ttl) == write(key, value, ttl, EmptyDict)

get(key) == api_execute(key_endpoint \o key, _MGET, Some(("recursive" :> "true")))

machines == api_execute(version_prefix \o "/machines", _MGET, None)

leader == api_execute(version_prefix \o "/leader", _MGET, None)

\* watch (lines 341-350): the method and the parameters are chosen by the
\* truth value of index; the arguments of api_execute are evaluated, the
\* path self.watch_endpoint + key first, before the call is made.
watch(key, index) ==
    IF Truthy(index) /\ ~HasAttr("_MPOST")
    THEN Raised("AttributeError")
    ELSE IF ~HasAttr("watch_endpoint")
    THEN Raised("AttributeError")
    ELSE IF Truthy(index)
    THEN api_execute(ClassAttr("watch_endpoint") \o key, ClassAttr("_MPOST"),
                     Some(("index" :> Val(index))))
    ELSE api_execute(ClassAttr("watch_endpoint") \o key, _MGET, None)

\* What an operation makes of the body the dispatcher returned.
Strip(parts) == [i \in 1..Len(parts) |-> parts[i].s]

Finish(op, response) ==
    LET r == api_execute_response(response)
    IN  IF r.kind = "raise"
        THEN r
        ELSE IF op = "machines"
        THEN (IF Val(r.val).t = "text"
              THEN Return(Strip(Val(r.val).parts))
              ELSE Return(<<Val(r.val)>>))     \* a body without a comma
        ELSE IF op = "leader"
        THEN r
        ELSE _result_from_response(Val(r.val))

\* __contains__ (lines 165-169): get(key) up to its request ...
__contains__(key) == get(key)

\* ... and what the try statement makes of the way get ends: True on a
\* return, False on a KeyError, any other exception passes through.
Outcome(op, response) ==
    IF op = "__contains__"
    THEN LET g == Finish("get", response)
         IN  IF g.kind = "return"
             THEN Return(TRUE)
             ELSE IF g.exc = "KeyError"
             THEN Return(FALSE)
             ELSE g
    ELSE Finish(op, response)

(***************************************************************************)
(* The inputs the callers draw from.                                       *)
(***************************************************************************)
Ttls == {None, Some(0), Some(1), Some(-1)}

\* Keyword arguments of write: the recognized preconditions, alone and
\* together, and an unrecognized name, alone and beside a recognized one.
WriteKw ==
    {EmptyDict,
     ("prevValue" :> "v1"),
     ("prevIndex" :> 0),
     ("prevIndex" :> 1),
     ("prevExists" :> FALSE),
     ("prevExists" :> TRUE),
     ("prevValue" :> "v1") @@ ("prevIndex" :> 1) @@ ("prevExists" :> TRUE),
     ("bogus" :> "x"),
     ("prevValue" :> "v1") @@ ("bogus" :> "x")}

\* The (ttl, keyword arguments) pairs write is called with: every ttl with
\* no keyword, every keyword set with no ttl, and both together.
WriteArgs ==
    {<<t, EmptyDict>> : t \in Ttls}
        \cup {<<None, kw>> : kw \in WriteKw}
        \cup {<<Some(1), ("prevExists" :> FALSE)>>, <<Some(-1), ("bogus" :> "x")>>}

Conditions == {"prevValue", "prevIndex", "prevExists"}

ReadKw == {EmptyDict, ("recursive" :> "true")}

\* index arguments of watch and ethernal_watch.
Indexes == {None} \cup {Some(i) : i \in 0..MaxIndex}

\* Preconditions other clients put on their writes.
OtherKw == {EmptyDict, ("prevValue" :> "v1"), ("prevExists" :> FALSE)}

TransportErrors == {"ReadTimeoutError", "MaxRetryError"}

(***************************************************************************)
(* The state.                                                              *)
(***************************************************************************)
NoPrev == [op |-> "none", value |-> "", index |-> None]

NoCall ==
    [op |-> "none", key |-> "", value |-> "", ttl |-> None, kw |-> EmptyDict,
     index |-> None, stage |-> "idle", dcalls |-> <<>>, sent |-> <<>>,
     resp |-> None, prev |-> NoPrev, out |-> NoOut]

\* The generator of ethernal_watch: "new" (not yet called), "created" (the
\* generator object exists and none of its code has run), "suspended" (at
\* the yield of line 378), "blocked" (inside watch) or "finished".
NoStream ==
    [st |-> "new", index |-> None, local_index |-> None, pulls |-> 0,
     calls |-> <<>>, sent |-> <<>>, delivered |-> <<>>, raised |-> "none"]

\* The attributes __init__ sets (lines 57-64) that the calls read.
NewClient ==
    [_base_uri |-> _base_uri, _read_timeout |-> _read_timeout,
     _allow_redirect |-> allow_redirect]

Init ==
    /\ log = <<>>
    /\ cur = NoCall
    /\ stream = NoStream
    /\ stream2 = NoStream
    /\ client = NewClient

Idle == cur.stage # "waiting"

\* The modifiedIndex of the Result a finished call returned, if it did.
ReturnedIndex(c) ==
    IF c.out.kind = "return" THEN Val(c.out.val)["modifiedIndex"] ELSE None

\* What a read remembers of the call before it: a write of the same key
\* with no precondition, its value and the index it returned.
PrevOf(op, key) ==
    IF /\ op = "read"
       /\ cur.op \in {"write", "set"}
       /\ cur.stage = "done"
       /\ cur.key = key
       /\ cur.kw = EmptyDict
    THEN [op |-> cur.op, value |-> cur.value, index |-> ReturnedIndex(cur)]
    ELSE NoPrev

\* A call of an operation: the code runs to its transport request, or to
\* the exception that ends it.
Begin(op, key, value, ttl, kw, index, f) ==
    /\ Idle
    /\ cur' = [op |-> op, key |-> key, value |-> value, ttl |-> ttl, kw |-> kw,
               index |-> index,
               stage |-> IF f.exc = "none" THEN "waiting" ELSE "done",
               dcalls |-> f.dcalls, sent |-> f.sent, resp |-> None,
               prev |-> PrevOf(op, key),
               out |-> IF f.exc = "none" THEN NoOut ELSE Raise(f.exc)]

Write ==
    \E k \in Keys, v \in Values, a \in WriteArgs :
        /\ Begin("write", k, v, a[1], a[2], None, write(k, v, a[1], a[2]))
        /\ UNCHANGED <<log, stream, stream2, client>>

TestAndSet ==
    \E k \in Keys, v \in Values, pv \in Values, t \in {None, Some(1)} :
        /\ Begin("test_and_set", k, v, t, ("prev_value" :> pv), None,
                 test_and_set(k, v, pv, t))
        /\ UNCHANGED <<log, stream, stream2, client>>

Set ==
    \E k \in Keys, v \in Values, t \in {None, Some(1)} :
        /\ Begin("set", k, v, t, EmptyDict, None, set(k, v, t))
        /\ UNCHANGED <<log, stream, stream2, client>>

Read ==
    \E k \in Keys, kw \in ReadKw :
        /\ Begin("read", k, "", None, kw, None, read(k, kw))
        /\ UNCHANGED <<log, stream, stream2, client>>

Get ==
    \E k \in Keys :
        /\ Begin("get", k, "", None, EmptyDict, None, get(k))
        /\ UNCHANGED <<log, stream, stream2, client>>

Delete ==
    \E k \in Keys :
        /\ Begin("delete", k, "", None, EmptyDict, None, delete(k))
        /\ UNCHANGED <<log, stream, stream2, client>>

Watch ==
    \E k \in Keys, i \in Indexes :
        /\ Begin("watch", k, "", None, EmptyDict, i, watch(k, i))
        /\ UNCHANGED <<log, stream, stream2, client>>

Contains ==
    \E k \in Keys :
        /\ Begin("__contains__", k, "", None, EmptyDict, None, __contains__(k))
        /\ UNCHANGED <<log, stream, stream2, client>>

Machines ==
    /\ Begin("machines", "", "", None, EmptyDict, None, machines)
    /\ UNCHANGED <<log, stream, stream2, client>>

Leader ==
    /\ Begin("leader", "", "", None, EmptyDict, None, leader)
    /\ UNCHANGED <<log, stream, stream2, client>>

\* The server handles the request in flight, in one step.
Serve ==
    /\ cur.stage = "waiting"
    /\ cur.resp = None
    /\ LET r == ServerHandle(log, cur.sent[Len(cur.sent)])
       IN  /\ Len(r.log) <= MaxIndex
           /\ log' = r.log
           /\ cur' = [cur EXCEPT !.resp = Some(r.resp)]
    /\ UNCHANGED <<stream, stream2, client>>

\* The request in flight is answered with a body of another shape.
ServeOther ==
    /\ cur.stage = "waiting"
    /\ cur.resp = None
    /\ \E r \in OtherResponses : cur' = [cur EXCEPT !.resp = Some(r)]
    /\ UNCHANGED <<log, stream, stream2, client>>

\* The transport gives up on the request in flight: http.request raises,
\* before or after the server has handled the request.
TransportFail ==
    /\ cur.stage = "waiting"
    /\ \E e \in TransportErrors :
           /\ cur' = [cur EXCEPT !.stage = "done", !.out = Raise(e)]
           /\ stream' = IF cur.op = "ethernal_watch"
                        THEN [stream EXCEPT !.st = "finished", !.raised = e]
                        ELSE stream
           /\ stream2' = IF cur.op = "ethernal_watch2"
                         THEN [stream2 EXCEPT !.st = "finished", !.raised = e]
                         ELSE stream2
    /\ UNCHANGED <<log, client>>

\* lines 376-377: the cursor moves once watch has returned.
Advance(local_index) ==
    IF local_index # None THEN Some(Val(local_index) + 1) ELSE local_index

\* The response arrives and the call runs to its end; a call made by the
\* generator ends in the yield of line 378 or in the exception of watch.
Complete ==
    /\ cur.stage = "waiting"
    /\ cur.resp # None
    /\ LET out == Outcome(cur.op, Val(cur.resp))
       IN  /\ cur' = [cur EXCEPT !.stage = "done", !.out = out]
           /\ stream' =
                  IF cur.op # "ethernal_watch"
                  THEN stream
                  ELSE IF out.kind = "raise"
                  THEN [stream EXCEPT !.st = "finished", !.raised = out.exc]
                  ELSE [stream EXCEPT !.st = "suspended",
                                      !.local_index = Advance(stream.local_index),
                                      !.delivered = Append(@, Val(out.val))]
           /\ stream2' =
                  IF cur.op # "ethernal_watch2"
                  THEN stream2
                  ELSE IF out.kind = "raise"
                  THEN [stream2 EXCEPT !.st = "finished", !.raised = out.exc]
                  ELSE [stream2 EXCEPT !.st = "suspended",
                                       !.local_index = Advance(stream2.local_index),
                                       !.delivered = Append(@, Val(out.val))]
    /\ UNCHANGED <<log, client>>

\* Another client's write, evaluated by the server in one step.
OtherClientPut ==
    /\ Len(log) < MaxIndex
    /\ \E k \in Keys, v \in Values, kw \in OtherKw :
           /\ PreconditionsHold(log, k, kw)
           /\ log' = ServerPut(log, k, kw @@ ("value" :> v)).log
    /\ UNCHANGED <<cur, stream, stream2, client>>

OtherClientDelete ==
    /\ Len(log) < MaxIndex
    /\ \E k \in Keys :
           /\ Exists(log, k)
           /\ log' = ServerDelete(log, k).log
    /\ UNCHANGED <<cur, stream, stream2, client>>

\* An ordinary function in place of the generator function: the creation
\* itself runs the body to the first watch.
StreamCreateEager ==
    /\ stream.st = "new"
    /\ Idle
    /\ \E i \in Indexes :
           LET f == watch(WatchKey, i)
           IN  /\ stream' = [stream EXCEPT
                      !.index = i,
                      !.local_index = i,
                      !.calls = <<i>>,
                      !.sent = f.sent,
                      !.st = IF f.exc = "none" THEN "blocked" ELSE "finished",
                      !.raised = f.exc]
               /\ Begin("ethernal_watch", WatchKey, "", None, EmptyDict, i, f)
    /\ UNCHANGED <<log, stream2, client>>

\* A stream that catches the failure of watch and calls watch again on the
\* next request.
StreamNextRestarts ==
    /\ Idle
    /\ stream.st \in {"created", "suspended", "finished"}
    /\ stream.pulls < MaxPulls
    /\ LET local_index == IF stream.st = "created"
                           THEN stream.index ELSE stream.local_index
           f == watch(WatchKey, local_index)
       IN  /\ stream' = [stream EXCEPT
                  !.pulls = @ + 1,
                  !.local_index = local_index,
                  !.calls = Append(@, local_index),
                  !.sent = @ \o f.sent,
                  !.st = IF f.exc = "none" THEN "blocked" ELSE "finished",
                  !.raised = f.exc]
           /\ Begin("ethernal_watch", WatchKey, "", None, EmptyDict,
                    local_index, f)
    /\ UNCHANGED <<log, stream2, client>>

\* client.ethernal_watch(key, index): calling a generator function runs
\* none of its body.
StreamCreate ==
    /\ stream.st = "new"
    /\ \E i \in Indexes : stream' = [stream EXCEPT !.st = "created", !.index = i]
    /\ UNCHANGED <<log, cur, stream2, client>>

\* next() on the generator.  The first next() runs line 373; each next()
\* runs the loop to the watch of line 375.  A generator that has raised is
\* finished: next() raises StopIteration and runs none of its body.
StreamNext ==
    /\ Idle
    /\ stream.st \in {"created", "suspended", "finished"}
    /\ stream.pulls < MaxPulls
    /\ IF stream.st = "finished"
       THEN /\ stream' = [stream EXCEPT !.pulls = @ + 1]
            /\ UNCHANGED cur
       ELSE LET local_index == IF stream.st = "created"
                               THEN stream.index ELSE stream.local_index
                f == watch(WatchKey, local_index)
            IN  /\ stream' = [stream EXCEPT
                       !.pulls = @ + 1,
                       !.local_index = local_index,
                       !.calls = Append(@, local_index),
                       !.sent = @ \o f.sent,
                       !.st = IF f.exc = "none" THEN "blocked" ELSE "finished",
                       !.raised = f.exc]
                /\ Begin("ethernal_watch", WatchKey, "", None, EmptyDict,
                         local_index, f)
    /\ UNCHANGED <<log, stream2, client>>

\* A second generator of the same client on the same key: its arguments
\* and its local_index are locals of its own frame.
Stream2Create ==
    /\ stream2.st = "new"
    /\ \E i \in Indexes : stream2' = [stream2 EXCEPT !.st = "created", !.index = i]
    /\ UNCHANGED <<log, cur, stream, client>>

\* A cursor kept in one place for both generators, as an attribute of the
\* client would be.
Stream2NextSharedCursor ==
    /\ Idle
    /\ stream2.st \in {"created", "suspended", "finished"}
    /\ stream2.pulls < MaxPulls
    /\ IF stream2.st = "finished"
       THEN /\ stream2' = [stream2 EXCEPT !.pulls = @ + 1]
            /\ UNCHANGED cur
       ELSE LET local_index == IF stream.calls # <<>>
                               THEN stream.local_index
                               ELSE IF stream2.st = "created"
                               THEN stream2.index ELSE stream2.local_index
                f == watch(WatchKey, local_index)
            IN  /\ stream2' = [stream2 EXCEPT
                       !.pulls = @ + 1,
                       !.local_index = local_index,
                       !.calls = Append(@, local_index),
                       !.sent = @ \o f.sent,
                       !.st = IF f.exc = "none" THEN "blocked" ELSE "finished",
                       !.raised = f.exc]
                /\ Begin("ethernal_watch2", WatchKey, "", None, EmptyDict,
                         local_index, f)
    /\ UNCHANGED <<log, stream, client>>

Stream2Next ==
    /\ Idle
    /\ stream2.st \in {"created", "suspended", "finished"}
    /\ stream2.pulls < MaxPulls
    /\ IF stream2.st = "finished"
       THEN /\ stream2' = [stream2 EXCEPT !.pulls = @ + 1]
            /\ UNCHANGED cur
       ELSE LET local_index == IF stream2.st = "created"
                               THEN stream2.index ELSE stream2.local_index
                f == watch(WatchKey, local_index)
            IN  /\ stream2' = [stream2 EXCEPT
                       !.pulls = @ + 1,
                       !.local_index = local_index,
                       !.calls = Append(@, local_index),
                       !.sent = @ \o f.sent,
                       !.st = IF f.exc = "none" THEN "blocked" ELSE "finished",
                       !.raised = f.exc]
                /\ Begin("ethernal_watch2", WatchKey, "", None, EmptyDict,
                         local_index, f)
    /\ UNCHANGED <<log, stream, client>>

\* The key-value calls of one client, the server and the other clients.
Next ==
    \/ Write
    \/ TestAndSet
    \/ Set
    \/ Read
    \/ Get
    \/ Delete
    \/ Machines
    \/ Leader
    \/ Serve
    \/ TransportFail
    \/ Complete
    \/ OtherClientPut
    \/ OtherClientDelete

Spec == Init /\ [][Next]_vars

\* The calls that reach the server, each answer a server or a proxy can
\* give them, and the other clients.
ReadNext ==
    \/ Read
    \/ Get
    \/ Delete
    \/ Contains
    \/ Machines
    \/ Leader
    \/ Serve
    \/ ServeOther
    \/ TransportFail
    \/ Complete
    \/ OtherClientPut
    \/ OtherClientDelete

ReadSpec == Init /\ [][ReadNext]_vars

\* The watch calls of one client, its perpetual stream and the other
\* clients whose writes the watches are about.
WatchNext ==
    \/ Watch
    \/ StreamCreate
    \/ StreamNext
    \/ OtherClientPut
    \/ OtherClientDelete

WatchSpec == Init /\ [][WatchNext]_vars

\* Two perpetual streams of one client, interleaved with each other and
\* with the client's reads.
StreamsNext ==
    \/ StreamCreate
    \/ StreamNext
    \/ Stream2Create
    \/ Stream2Next
    \/ Read
    \/ Serve
    \/ TransportFail
    \/ Complete

StreamsSpec == Init /\ [][StreamsNext]_vars

(***************************************************************************)
(* The properties.                                                         *)
(***************************************************************************)
IsReplay(req, cursor) ==
    /\ req.method = "POST"
    /\ req.enc = "body"
    /\ req.fields = Some(("index" :> cursor))

IsWaitForNext(req) ==
    /\ req.method = "GET"
    /\ req.fields = None

\* C1: for a perpetual stream started with index i, the n-th watch call
\* the stream issues carries cursor i + (n-1), and each such call is a
\* replay request: a POST whose body carries index = cursor.
C1_StreamCallsReplayAtCursor ==
    (stream.index # None) =>
        /\ Len(stream.sent) = Len(stream.calls)
        /\ \A n \in 1..Len(stream.calls) :
               /\ stream.calls[n] = Some(Val(stream.index) + (n - 1))
               /\ IsReplay(stream.sent[n], Val(stream.calls[n]))

\* The indices of the changes of key k with index >= i, in order.
RECURSIVE ChangesFrom(_, _, _)
ChangesFrom(h, k, i) ==
    IF i > Len(h) THEN <<>>
    ELSE IF h[i].key = k THEN <<i>> \o ChangesFrom(h, k, i + 1)
    ELSE ChangesFrom(h, k, i + 1)

DeliveredIndexes == [n \in 1..Len(stream.delivered) |-> Val(stream.delivered[n]["modifiedIndex"])]

IsPrefix(a, b) == Len(a) <= Len(b) /\ \A n \in 1..Len(a) : a[n] = b[n]

\* C2: a perpetual stream started at index i delivers every change of the
\* key with index >= i exactly once: what it has delivered is, in order and
\* without a repeat, the changes from i on, and a stream that has ended
\* (other than by a transport failure) has left no such change undelivered.
C2_EveryChangeExactlyOnce ==
    (stream.index # None /\ stream.raised \notin TransportErrors) =>
        LET due == ChangesFrom(log, WatchKey, IF Val(stream.index) = 0 THEN 1 ELSE Val(stream.index))
        IN  /\ IsPrefix(DeliveredIndexes, due)
            /\ (stream.st = "finished") => (DeliveredIndexes = due)

\* C3: the Results a stream started at index i has delivered have
\* non-decreasing modifiedIndex, and when every index from i on is a change
\* of the watched key the n-th of them has modifiedIndex i + (n-1).
C3_DeliveredInOrder ==
    (stream.index # None) =>
        /\ \A m, n \in 1..Len(stream.delivered) :
               (m <= n) => (DeliveredIndexes[m] <= DeliveredIndexes[n])
        /\ (\A j \in Val(stream.index)..Len(log) : j >= 1 /\ log[j].key = WatchKey) =>
               \A n \in 1..Len(stream.delivered) :
                   DeliveredIndexes[n] = Val(stream.index) + (n - 1)

\* The case of C3: a stream started at an index has delivered a Result.
C3_Delivered == stream.index # None /\ stream.delivered # <<>>

\* C4: watch(key, index) sends a GET with no parameters when the index is
\* omitted, and a POST whose body carries the index when one is supplied,
\* 0 included.
C4_WatchSelectsByPresence ==
    (cur.op = "watch") =>
        /\ Len(cur.sent) = 1
        /\ IF cur.index = None
           THEN IsWaitForNext(cur.sent[1])
           ELSE IsReplay(cur.sent[1], Val(cur.index))

\* C5: every request a stream started with no index issues is the
\* wait-for-next form, a GET with no index, however many Results it has
\* delivered.
C5_NoIndexStaysWaitForNext ==
    (stream.st # "new" /\ stream.index = None) =>
        /\ \A n \in 1..Len(stream.calls) : stream.calls[n] = None
        /\ \A n \in 1..Len(stream.sent) : IsWaitForNext(stream.sent[n])

\* The case of C5: a stream started with no index has issued a request.
C5_RequestIssued == stream.st # "new" /\ stream.index = None /\ stream.sent # <<>>

\* C6: a write whose keyword arguments hold a name outside prevValue,
\* prevIndex, prevExists is rejected by write: it fails before a request
\* without that name is handed on.
C6_UnknownPreconditionRejected ==
    (cur.op = "write" /\ ~(DOMAIN cur.kw \subseteq Conditions)) =>
        /\ cur.out.kind = "raise"
        /\ cur.dcalls = <<>>
        /\ cur.sent = <<>>

\* The body parameters the claim gives a write.
RECURSIVE Restrict(_, _)
Restrict(f, names) ==
    IF names = {} THEN EmptyDict
    ELSE LET n == CHOOSE x \in names : TRUE
         IN  (n :> f[n]) @@ Restrict(f, names \ {n})

ClaimedParams(value, ttl, kw) ==
    ("value" :> value)
        @@ (IF ttl # None /\ Val(ttl) > 0 THEN ("ttl" :> Val(ttl)) ELSE EmptyDict)
        @@ Restrict(kw, DOMAIN kw \cap Conditions)

\* C7: a write with recognized preconditions sends one request, a PUT to
\* the key path whose body is value, ttl iff a positive ttl was given, and
\* each precondition iff the caller supplied it, with the supplied value.
C7_WriteSendsExactlyItsParams ==
    (cur.op = "write" /\ DOMAIN cur.kw \subseteq Conditions) =>
        /\ Len(cur.sent) = 1
        /\ cur.sent[1].method = "PUT"
        /\ cur.sent[1].url = KeyUrl(cur.key)
        /\ cur.sent[1].enc = "body"
        /\ cur.sent[1].fields = Some(ClaimedParams(cur.value, cur.ttl, cur.kw))

IsCompareAndSwap(c) ==
    c.op = "test_and_set" \/ (c.op = "write" /\ DOMAIN c.kw = {"prevValue"})

\* C8: write(k, v2, prevValue=v1) is evaluated by the server and ends in
\* one of two ways: it returns a Result, the server having found v1 stored
\* and stored v2, or it fails with PreconditionFailed, the stored value
\* unchanged.
C8_CompareAndSwapOutcome ==
    (IsCompareAndSwap(cur) /\ cur.stage = "done" /\ cur.out.exc \notin TransportErrors) =>
        /\ Len(cur.sent) = 1
        /\ cur.resp # None
        /\ IF Val(cur.resp).status = 200
           THEN cur.out.kind = "return" /\ Val(cur.out.val)["value"] = Some(cur.value)
           ELSE cur.out.exc = "PreconditionFailed"

\* C9: read(k) after write(k, v), with no mutation of k between them,
\* yields a Result whose value is v and whose modifiedIndex is the index
\* the write returned.
C9_ReadAfterWrite ==
    (cur.op = "read" /\ cur.stage = "done" /\ cur.prev.op # "none"
        /\ cur.out.exc \notin TransportErrors) =>
        /\ cur.prev.index # None
        /\ (ModifiedIndex(log, cur.key) = Val(cur.prev.index)) =>
               /\ cur.out.kind = "return"
               /\ Val(cur.out.val)["value"] = Some(cur.prev.value)
               /\ Val(cur.out.val)["modifiedIndex"] = cur.prev.index

\* C10: a dispatcher call performs exactly one transport request, GET and
\* DELETE with the parameters in the query and PUT and POST with them in
\* the body, and on status 200 it returns the response body as it is.
C10_OneRequestPerDispatch ==
    \A n \in 1..Len(cur.dcalls) :
        /\ Len(cur.sent) = Len(cur.dcalls)
        /\ cur.sent[n].method = cur.dcalls[n].method
        /\ cur.sent[n].fields = cur.dcalls[n].params
        /\ cur.sent[n].enc = (IF cur.dcalls[n].method \in {"GET", "DELETE"} THEN "query" ELSE "body")
        /\ (cur.op = "leader" /\ cur.stage = "done" /\ cur.resp # None /\ Val(cur.resp).status = 200)
               => (cur.out = Return(Val(cur.resp).data))

(***************************************************************************)
(* C11: every response whose status is not 200 fails the call, and the     *)
(* failure is a classified error when the body parses as an error object   *)
(* and a decode error when the body cannot be parsed.                      *)
(***************************************************************************)
IsErrorObject(data) ==
    /\ data.t = "json"
    /\ data.v.py = "dict"
    /\ {"errorCode", "message", "cause", "index"} \subseteq DOMAIN data.v.d

C11_Non200FailsClassified ==
    (/\ cur.stage = "done"
     /\ cur.resp # None
     /\ Val(cur.resp).status # 200
     /\ cur.out.exc \notin TransportErrors)
        => /\ cur.out.kind = "raise"
           /\ IF IsErrorObject(Val(cur.resp).data)
              THEN cur.out.exc = "EtcdError"
              ELSE cur.out.exc \in {"EtcdException", "ValueError"}

\* The part of C11 the code keeps: no call returns on a status other than 200.
C11_Non200NeverReturns ==
    (cur.stage = "done" /\ cur.resp # None /\ Val(cur.resp).status # 200)
        => cur.out.kind = "raise"

(***************************************************************************)
(* C12: the stream is pull-based.  Creating it makes no watch call and     *)
(* sends no request; the watch calls it has made never exceed the elements *)
(* the consumer has asked for; at most one of its calls is outstanding.    *)
(***************************************************************************)
Outstanding(g) ==
    Len(g.calls) - Len(g.delivered) - (IF g.raised # "none" THEN 1 ELSE 0)

C12_StreamIsPullBased ==
    /\ stream.st \in {"new", "created"} => stream.calls = <<>> /\ stream.sent = <<>>
    /\ Len(stream.calls) <= stream.pulls
    /\ Len(stream.sent) <= Len(stream.calls)
    /\ Outstanding(stream) \in {0, 1}

\* The consumer has asked for an element and the stream has called watch.
C12_Pulled == stream.pulls >= 1 /\ Len(stream.calls) = 1

(***************************************************************************)
(* C13: a failure of a watch call made by the stream reaches the consumer  *)
(* as it was raised and finishes the stream: the failed call stays the     *)
(* stream's last call and nothing is delivered after it, however often the *)
(* consumer asks again.                                                    *)
(***************************************************************************)
C13_FailureEndsStream ==
    /\ (cur.op = "ethernal_watch" /\ cur.stage = "done" /\ cur.out.kind = "raise")
           => stream.st = "finished" /\ stream.raised = cur.out.exc
    /\ stream.raised # "none" <=> stream.st = "finished"
    /\ stream.st = "finished" => Len(stream.calls) = Len(stream.delivered) + 1

\* The consumer has asked again after the failure.
C13_AskedAgainAfterFailure ==
    /\ stream.st = "finished"
    /\ stream.raised = "AttributeError"
    /\ stream.pulls >= 2

(***************************************************************************)
(* C14: no retries.  An invocation of read, get, write, delete, watch,     *)
(* machines or leader makes exactly one dispatcher call, whatever its      *)
(* outcome, and never sends a second request.                              *)
(***************************************************************************)
C14_ExactlyOneDispatch ==
    (/\ cur.op \in {"read", "get", "write", "delete", "watch", "machines", "leader"}
     /\ cur.stage # "idle")
        => Len(cur.dcalls) = 1 /\ Len(cur.sent) <= 1

(***************************************************************************)
(* C15: the decoder turns a top-level array of n elements into n Results   *)
(* in the order of the array, a top-level object into one Result, and      *)
(* fails as a whole, with no partial sequence, when the body does not      *)
(* parse or an element lacks a required field.                             *)
(***************************************************************************)
WellFormed(d) == {"action", "key", "modifiedIndex", "createdIndex"} \subseteq DOMAIN d

\* The Result r is the decoding of the object d.
Decodes(r, d) ==
    /\ r["action"] = Some(d.action)
    /\ r["key"] = Some(d.key)
    /\ r["modifiedIndex"] = Some(d.modifiedIndex)
    /\ r["createdIndex"] = Some(d.createdIndex)
    /\ r["value"] = IF "value" \in DOMAIN d THEN Some(d.value) ELSE None

\* A finished read, get or delete whose 200 answer went to the decoder.
Decoded ==
    /\ cur.op \in {"read", "get", "delete"}
    /\ cur.stage = "done"
    /\ cur.resp # None
    /\ Val(cur.resp).status = 200
    /\ cur.out.exc \notin TransportErrors

C15_DecodeAllOrNothing ==
    Decoded =>
        LET data == Val(cur.resp).data
            out == cur.out
        IN  IF data.t # "json"
            THEN out = Raise("EtcdException")
            ELSE IF data.v.py = "list"
            THEN LET items == data.v.items
                 IN  IF \A j \in 1..Len(items) : WellFormed(items[j])
                     THEN /\ out.kind = "return"
                          /\ Len(Val(out.val)) = Len(items)
                          /\ \A j \in 1..Len(items) : Decodes(Val(out.val)[j], items[j])
                     ELSE out = Raise("EtcdException")
            ELSE IF WellFormed(data.v.d)
            THEN out.kind = "return" /\ Decodes(Val(out.val), data.v.d)
            ELSE out = Raise("EtcdException")

\* A listing of two nodes, /b before /a, has been decoded.
C15_ListDecoded ==
    /\ Decoded
    /\ Val(cur.resp).data = ListBody(<<ListedNode("/b", "v2", 2), ListedNode("/a", "v1", 1)>>)
    /\ cur.out.kind = "return"

(***************************************************************************)
(* C16: test_and_set(key, value, prev_value, ttl) hands the dispatcher     *)
(* what write(key, value, ttl, prevValue=prev_value) hands it, with        *)
(* prevValue as the only precondition, and set(key, value, ttl) what       *)
(* write(key, value, ttl) hands it, with none; each ends as that write.    *)
(***************************************************************************)
SameAsWrite(c, w, conditions) ==
    /\ c.dcalls = w.dcalls
    /\ c.sent = w.sent
    /\ \A n \in 1..Len(c.dcalls) :
           DOMAIN Val(c.dcalls[n].params) \cap Conditions = conditions
    /\ IF w.exc = "none" THEN c.stage = "waiting" ELSE c.out = Raise(w.exc)

C16_TestAndSetAndSetAreWrites ==
    /\ (cur.op = "test_and_set" /\ cur.resp = None)
           => SameAsWrite(cur,
                          write(cur.key, cur.value, cur.ttl,
                                ("prevValue" :> cur.kw["prev_value"])),
                          {"prevValue"})
    /\ (cur.op = "set" /\ cur.resp = None)
           => SameAsWrite(cur, write(cur.key, cur.value, cur.ttl, EmptyDict), {})

\* A test_and_set with a ttl has made its dispatcher call.
C16_TestAndSetCalled ==
    /\ cur.op = "test_and_set"
    /\ cur.ttl = Some(1)
    /\ Len(cur.dcalls) = 1
    /\ cur.stage = "done"

(***************************************************************************)
(* C17: every transport request the dispatcher issues carries the client's *)
(* configured read timeout.                                                *)
(***************************************************************************)
C17_RequestsCarryReadTimeout ==
    \A n \in 1..Len(cur.sent) : cur.sent[n].timeout = Some(client["_read_timeout"])

(***************************************************************************)
(* C18: two perpetual streams of one client keep independent cursors: the  *)
(* watch calls each has made, and the requests each has sent, are those it *)
(* makes alone for its own index and its own number of next() calls,       *)
(* whatever the other stream and the client's other calls did in between;  *)
(* and the client's base address, read timeout and redirect setting stay   *)
(* as __init__ set them.                                                   *)
(***************************************************************************)
RECURSIVE Alone(_, _)
\* What a stream started with index i has done after p next() calls when
\* no other stream runs: its watch calls and the requests they sent.
Alone(i, p) ==
    IF p = 0
    THEN [calls |-> <<>>, sent |-> <<>>]
    ELSE LET f == watch(WatchKey, i)
             rest == IF f.exc = "none"
                     THEN Alone(Advance(i), p - 1)
                     ELSE [calls |-> <<>>, sent |-> <<>>]
         IN  [calls |-> <<i>> \o rest.calls, sent |-> f.sent \o rest.sent]

AsAlone(g) ==
    LET a == Alone(g.index, g.pulls)
    IN  g.calls = a.calls /\ g.sent = a.sent

C18_StreamsIndependent ==
    /\ AsAlone(stream)
    /\ AsAlone(stream2)
    /\ client = NewClient

\* Both streams have been asked for an element, with different indexes.
C18_BothPulled ==
    /\ stream.pulls >= 1
    /\ stream2.pulls >= 1
    /\ stream.index # stream2.index
    /\ Len(stream.calls) = 1
    /\ Len(stream2.calls) = 1

(***************************************************************************)
(* C19: key in client makes one recursive read and is True when the read   *)
(* succeeds and False when the server answers that the key does not exist. *)
(***************************************************************************)
IsKeyNotFound(resp) ==
    /\ resp.status = 404
    /\ IsErrorObject(resp.data)
    /\ resp.data.v.d.errorCode = 100

C19_ContainsReportsMissingKey ==
    (cur.op = "__contains__" /\ cur.stage # "idle")
        => /\ cur.dcalls = <<[path |-> key_endpoint \o cur.key, method |-> "GET",
                              params |-> Some(("recursive" :> "true"))]>>
           /\ (/\ cur.stage = "done"
               /\ cur.out.exc \notin TransportErrors)
                  => IF IsKeyNotFound(Val(cur.resp))
                     THEN cur.out = Return(FALSE)
                     ELSE IF cur.out.kind = "return"
                     THEN cur.out = Return(TRUE)
                     ELSE cur.out.exc # "KeyError"

====
